---------------------------- MODULE Spec2Model ----------------------------
(***************************************************************************)
(* State-machine model of scopehal's TestWaveformSource                    *)
(* (src/scopehal/TestWaveformSource.cpp): the two serial-pattern           *)
(* synthesizers (GeneratePRBS31, Generate8b10b), the channel emulation     *)
(* DegradeSerialData with its FFT plan cache, and the constructor and      *)
(* destructor.                                                             *)
(*                                                                         *)
(* Conventions.                                                            *)
(*  - Voltages and phases are floats in the source.  The model computes    *)
(*    them exactly over integers: amplitudes are drawn as multiples of     *)
(*    twice the sample period, so every interpolated sample is an integer  *)
(*    and no rounding is involved.                                         *)
(*  - size_t values are kept as their signed residue modulo 2^64 (a        *)
(*    negative number -k stands for 2^64 - k); unsigned comparison is      *)
(*    SizeLess.                                                            *)
(*  - A spectrum is represented by the signal it is the transform of, so   *)
(*    the per-bin multiplication by the channel response is a circular     *)
(*    convolution of that signal.                                          *)
(***************************************************************************)
EXTENDS Integers, Sequences, FiniteSets, TLC

(***************************************************************************)
(* Bounds of the model.                                                    *)
(***************************************************************************)
MaxSynthDepth == 24
MaxPeriod == 4
MaxSamplePeriod == 2
MaxAmpFactor == 2
MaxDepth == 3
MaxCalls == 2

(***************************************************************************)
(* Program constants.                                                      *)
(***************************************************************************)
patternlen == 20

pattern ==
    << 0, 0, 1, 1, 1, 1, 1, 0, 1, 0,
       1, 0, 0, 1, 0, 0, 0, 1, 0, 1 >>

\* rand(): the C library's hidden generator state is an index into the
\* sequence of values it hands out.
RandSeq == << 1804289383, 846930886, 1681692777 >>

RandValue(c) == RandSeq[c]

RandAdvance(c) == (c % Len(RandSeq)) + 1

Pow2(n) == 2 ^ n

Abs(x) == IF x < 0 THEN -x ELSE x

\* C++ integer division truncates toward zero.
TruncDiv(a, b) ==
    IF (a >= 0) = (b > 0) THEN Abs(a) \div Abs(b) ELSE -(Abs(a) \div Abs(b))

(***************************************************************************)
(* Bit-pattern synthesis: the body of the per-sample loop.                 *)
(***************************************************************************)
Bit(x, k) == (x \div Pow2(k)) % 2

\* uint32_t next = ((prbs >> 30) ^ (prbs >> 27)) & 1
PrbsFeedback(prbs) == (Bit(prbs, 30) + Bit(prbs, 27)) % 2

\* prbs = (prbs << 1) | next.  Bit 31 of the register is never read, so the
\* register is kept modulo 2^31.
PrbsShift(prbs) == ((prbs % Pow2(30)) * 2) + PrbsFeedback(prbs)

Voltage(level, scale) == IF level = 1 THEN scale ELSE -scale

\* Mutant of Interpolate: the fraction of the interval before the edge.
Interpolate_FracBeforeEdge(last_voltage, cur_voltage, last_phase, sampleperiod) ==
    last_voltage + ((cur_voltage - last_voltage) * last_phase) \div sampleperiod

\* last_voltage + delta*frac with frac = 1 - (last_phase / sampleperiod)
Interpolate(last_voltage, cur_voltage, last_phase, sampleperiod) ==
    last_voltage
      + ((cur_voltage - last_voltage) * (sampleperiod - last_phase)) \div sampleperiod

\* if(last == value) ... else ...
EmitSample(last, value, scale, last_phase, sampleperiod) ==
    IF last = value
    THEN Voltage(value, scale)
    ELSE Interpolate(Voltage(last, scale), Voltage(value, scale),
                     last_phase, sampleperiod)

\* PRBS31 pattern advance (the body of if(phase_to_next_edge < 0), less the
\* accumulator update)
AdvancePRBS31(s) ==
    [s EXCEPT !.prbs = PrbsShift(s.prbs),
              !.value = PrbsFeedback(s.prbs),
              !.nadv = s.nadv + 1]

\* Mutant of Advance8b10b: the index wraps one symbol early.
Advance8b10b_WrapEarly(s) ==
    [s EXCEPT !.value = pattern[s.nbit + 1],
              !.nbit = IF s.nbit + 1 >= patternlen - 1 THEN 0 ELSE s.nbit + 1,
              !.nadv = s.nadv + 1]

\* fixed-pattern advance: value = pattern[nbit ++]; if(nbit >= patternlen) nbit = 0
Advance8b10b(s) ==
    [s EXCEPT !.value = pattern[s.nbit + 1],
              !.nbit = IF s.nbit + 1 >= patternlen THEN 0 ELSE s.nbit + 1,
              !.nadv = s.nadv + 1]

AdvancePattern(s) ==
    IF s.kind = "PRBS31" THEN AdvancePRBS31(s) ELSE Advance8b10b(s)

\* Increment phase accumulator; on a zero crossing advance the pattern once
\* and add one symbol period.
PhaseStep(s) ==
    LET dec == s.phase_to_next_edge - s.sampleperiod
        t == [s EXCEPT !.last_phase = s.phase_to_next_edge,
                       !.phase_to_next_edge = dec,
                       !.last = s.value]
    IN  IF dec < 0
        THEN [AdvancePattern(t) EXCEPT !.phase_to_next_edge = dec + s.period]
        ELSE t

\* One iteration of for(size_t i=0; i<depth; i++)
SynthSample(s) ==
    LET t == PhaseStep(s)
    IN  [t EXCEPT !.samples = Append(s.samples,
                      EmitSample(t.last, t.value, t.scale,
                                 t.last_phase, t.sampleperiod)),
                  !.i = s.i + 1]

\* The locals of a synthesizer on entry to its loop.  seed is the value of
\* rand(), which is below 2^31.
SynthStart(kind, amplitude, period, sampleperiod, depth, seed) ==
    [ kind |-> kind,
      amplitude |-> amplitude,
      period |-> period,
      sampleperiod |-> sampleperiod,
      depth |-> depth,
      scale |-> amplitude \div 2,
      prbs |-> IF kind = "PRBS31" THEN seed ELSE 0,
      phase_to_next_edge |-> period,
      last_phase |-> period,
      value |-> 0,
      last |-> 0,
      nbit |-> 0,
      nadv |-> 0,
      i |-> 0,
      samples |-> << >> ]

RECURSIVE SynthRun(_)
SynthRun(s) == IF s.i < s.depth THEN SynthRun(SynthSample(s)) ELSE s

\* The idealized waveform a generator hands to DegradeSerialData.
Synthesize(kind, amplitude, period, sampleperiod, depth, seed) ==
    SynthRun(SynthStart(kind, amplitude, period, sampleperiod, depth, seed)).samples

Kinds == {"PRBS31", "8b10b"}

SamplePeriods == 1..MaxSamplePeriod

Periods == 1..MaxPeriod

Amplitudes(sampleperiod) == {2 * sampleperiod * k : k \in 1..MaxAmpFactor}

(***************************************************************************)
(* Collaborators of the engine.                                            *)
(***************************************************************************)

\* next_pow2: the next power of two at or above v.
RECURSIVE NextPow2From(_, _)
NextPow2From(p, v) == IF p >= v THEN p ELSE NextPow2From(2 * p, v)

next_pow2(v) == NextPow2From(1, v)

\* The noise source: a Lehmer generator like minstd_rand, scaled down to the
\* modulus RngMod.
RngMod == 7

RngMul == 3

RngNext(x) == (RngMul * x) % RngMod

\* The generator after k draws.
RECURSIVE RngIter(_, _)
RngIter(x, k) == IF k = 0 THEN x ELSE RngIter(RngNext(x), k - 1)

\* One draw of normal_distribution<>(0, noise_amplitude): the generator
\* advances once and the deviate is scaled by the standard deviation.
NoiseValue(x, noise_amplitude) == noise_amplitude * ((RngNext(x) % 5) - 2)

\* size_t arithmetic on residues modulo 2^64: a negative residue is a value
\* near 2^64.
SizeLess(a, b) == IF (a >= 0) = (b >= 0) THEN a < b ELSE a >= 0

InBounds(idx, n) == idx >= 0 /\ idx < n

\* Dual-residency buffer: which copies hold the latest data (cpuFresh,
\* gpuFresh) and the stale flags the buffer keeps (cpuStale, gpuStale).
NewBuffer ==
    [cpuFresh |-> TRUE, gpuFresh |-> TRUE, cpuStale |-> FALSE, gpuStale |-> FALSE]

HostWrite(b) == [b EXCEPT !.cpuFresh = TRUE, !.gpuFresh = FALSE]

DeviceWrite(b) == [b EXCEPT !.gpuFresh = TRUE, !.cpuFresh = FALSE]

MarkModifiedFromCpu(b) == [b EXCEPT !.gpuStale = TRUE]

MarkModifiedFromGpu(b) == [b EXCEPT !.cpuStale = TRUE]

PrepareForCpuAccess(b) ==
    IF b.cpuStale
    THEN [b EXCEPT !.cpuFresh = b.gpuFresh, !.cpuStale = FALSE]
    ELSE b

PrepareForGpuAccess(b, outputOnly) ==
    IF b.gpuStale
    THEN [b EXCEPT !.gpuFresh = IF outputOnly THEN b.gpuFresh ELSE b.cpuFresh,
                   !.gpuStale = FALSE]
    ELSE b

\* RectangularWindow shader: copy numActualSamples samples, zero-fill the
\* rest of npoints.
ZeroPad(samples, numActualSamples, n) ==
    [j \in 1..n |-> IF j <= numActualSamples /\ j <= Len(samples)
                    THEN samples[j] ELSE 0]

\* The channel: a delay line of the model's group delay, applied circularly
\* to the padded signal.
ChannelShift(sparams, timescale, n) == (sparams.groupDelay \div timescale) % n

ApplyChannelTo(x, sparams, timescale) ==
    LET n == Len(x)
        d == ChannelShift(sparams, timescale, n)
    IN  [j \in 1..n |-> x[((j - 1 - d) % n) + 1]]

\* The unnormalised inverse transform scales by the transform length.
InverseTransform(x) == [j \in 1..Len(x) |-> Len(x) * x[j]]

\* What a read outside a buffer may return.
GarbageValues == {0, 8}

FFTS_FORWARD == "forward"

FFTS_BACKWARD == "backward"

NULL == 0

VARIABLES
    syn,                \* locals of a synthesizer loop (SpecSynth)
    crand,              \* hidden state of the C library's rand()
    pc,                 \* position of the calling thread
    m_forwardPlan,      \* plan handle (index into heap) or NULL
    m_reversePlan,
    m_cachedNumPoints,
    m_forwardInBuf,
    m_forwardOutBuf,
    m_reverseOutBuf,
    m_rng,
    m_sparams,
    heap,               \* every plan ffts_init_1d_real ever returned
    coh,                \* coherence state of cap->m_samples and m_forwardInBuf
    staleRead,          \* some side has read a copy that was not the latest
    cap,                \* the waveform's samples
    call,               \* parameters and locals of the call in progress
    entry,              \* samples and noise state on entry to DegradeSerialData
    ub,                 \* the undefined behaviour the call has executed
    ncalls,
    det                 \* the two runs compared by SpecDet

engineVars ==
    << pc, m_forwardPlan, m_reversePlan, m_cachedNumPoints, m_forwardInBuf,
       m_forwardOutBuf, m_reverseOutBuf, m_rng, m_sparams, heap, coh, staleRead,
       cap, call, entry, ub, ncalls >>

vars == << syn, crand, engineVars, det >>

NoCall ==
    [ depth |-> 0, lpf |-> FALSE, noise_amplitude |-> 0,
      sampleperiod |-> 1, npoints |-> 0, groupDelaySamples |-> 0,
      istart |-> 0, finalLen |-> 0, i |-> 0 ]

NoEntry == [samples |-> << >>, rng |-> 0]

NoSynth == SynthStart("none", 0, 1, 1, 0, 0)

NoDet == [phase |-> "off"]

\* Group delays of the loaded channel at its centre bin, in femtoseconds.
GroupDelays == {-1, 0, 2}

NoiseAmplitudes == {0, 1}

EngineSamplePeriods == {1, 2}

EngineAmplitude == 2 * MaxAmpFactor

RngSeeds == {1}

\* TestWaveformSource::TestWaveformSource: the state after construction.
EngineInit ==
    /\ pc = "idle"
    /\ m_forwardPlan = NULL
    /\ m_reversePlan = NULL
    /\ m_cachedNumPoints = 0
    /\ m_forwardInBuf = << >>
    /\ m_forwardOutBuf = << >>
    /\ m_reverseOutBuf = << >>
    /\ m_rng \in RngSeeds
    /\ \E g \in GroupDelays : m_sparams = [groupDelay |-> g]
    /\ heap = << >>
    /\ coh = [cap |-> NewBuffer, fwdIn |-> NewBuffer]
    /\ staleRead = FALSE
    /\ cap = << >>
    /\ call = NoCall
    /\ entry = NoEntry
    /\ ub = {}
    /\ ncalls = 0

EngineIdle ==
    /\ pc = "off"
    /\ m_forwardPlan = NULL
    /\ m_reversePlan = NULL
    /\ m_cachedNumPoints = 0
    /\ m_forwardInBuf = << >>
    /\ m_forwardOutBuf = << >>
    /\ m_reverseOutBuf = << >>
    /\ m_rng = 1
    /\ m_sparams = [groupDelay |-> 0]
    /\ heap = << >>
    /\ coh = [cap |-> NewBuffer, fwdIn |-> NewBuffer]
    /\ staleRead = FALSE
    /\ cap = << >>
    /\ call = NoCall
    /\ entry = NoEntry
    /\ ub = {}
    /\ ncalls = 0

(***************************************************************************)
(* Generation calls.                                                       *)
(***************************************************************************)
EnginePeriod == 1

\* The generator's body up to the call of DegradeSerialData: a new waveform
\* of depth samples written by the host.
StartGenerate(kind, seed) ==
    /\ pc = "idle"
    /\ ncalls < MaxCalls
    /\ \E sp \in EngineSamplePeriods, depth \in 1..MaxDepth, lpf \in BOOLEAN,
          sigma \in NoiseAmplitudes :
         /\ cap' = Synthesize(kind, EngineAmplitude, EnginePeriod * sp, sp,
                              depth, seed)
         /\ call' = [NoCall EXCEPT !.depth = depth, !.lpf = lpf,
                                   !.noise_amplitude = sigma,
                                   !.sampleperiod = sp]
    /\ coh' = [coh EXCEPT !.cap = HostWrite(NewBuffer)]
    /\ ncalls' = ncalls + 1
    /\ pc' = "degrade"
    /\ UNCHANGED << m_forwardPlan, m_reversePlan, m_cachedNumPoints,
                    m_forwardInBuf, m_forwardOutBuf, m_reverseOutBuf, m_rng,
                    m_sparams, heap, staleRead, entry, ub, syn, det >>

GeneratePRBS31 ==
    /\ StartGenerate("PRBS31", RandValue(crand))
    /\ crand' = RandAdvance(crand)

Generate8b10b ==
    /\ StartGenerate("8b10b", 0)
    /\ UNCHANGED crand

(***************************************************************************)
(* DegradeSerialData, one step per statement group.                        *)
(***************************************************************************)
AfterCache == IF call.lpf THEN "dispatch" ELSE "noise"

\* Line 305: cap->MarkModifiedFromCpu()
DegradeEnter ==
    /\ pc = "degrade"
    /\ coh' = [coh EXCEPT !.cap = MarkModifiedFromCpu(coh.cap)]
    /\ entry' = [samples |-> cap, rng |-> m_rng]
    /\ pc' = "cache"
    /\ UNCHANGED << m_forwardPlan, m_reversePlan, m_cachedNumPoints,
                    m_forwardInBuf, m_forwardOutBuf, m_reverseOutBuf, m_rng,
                    m_sparams, heap, staleRead, cap, call, ub, ncalls,
                    syn, crand, det >>

\* Lines 313-315: npoints = next_pow2(depth); if(m_cachedNumPoints != npoints)
CacheCheck ==
    /\ pc = "cache"
    /\ call' = [call EXCEPT !.npoints = next_pow2(call.depth)]
    /\ pc' = IF m_cachedNumPoints # next_pow2(call.depth)
             THEN "free_fwd" ELSE AfterCache
    /\ UNCHANGED << m_forwardPlan, m_reversePlan, m_cachedNumPoints,
                    m_forwardInBuf, m_forwardOutBuf, m_reverseOutBuf, m_rng,
                    m_sparams, heap, coh, staleRead, cap, entry, ub, ncalls,
                    syn, crand, det >>

\* ffts_free(plan)
ffts_free(h, plan) == [h EXCEPT ![plan].frees = @ + 1]

\* Mutant of FreeIfSet: the plan is never released.
FreeIfSet_Leak(h, plan) == h

\* if(plan) ffts_free(plan)
FreeIfSet(h, plan) == IF plan # NULL THEN ffts_free(h, plan) ELSE h

\* ffts_init_1d_real(n, dir) when it succeeds: a new plan on the heap.
NewPlan(h, n, dir) == Append(h, [n |-> n, dir |-> dir, frees |-> 0])

\* Lines 317-318
FreeForward ==
    /\ pc = "free_fwd"
    /\ heap' = FreeIfSet(heap, m_forwardPlan)
    /\ pc' = "init_fwd"
    /\ UNCHANGED << m_forwardPlan, m_reversePlan, m_cachedNumPoints,
                    m_forwardInBuf, m_forwardOutBuf, m_reverseOutBuf, m_rng,
                    m_sparams, coh, staleRead, cap, call, entry, ub, ncalls,
                    syn, crand, det >>

\* Line 319: m_forwardPlan = ffts_init_1d_real(npoints, FFTS_FORWARD), which
\* returns NULL when the plan cannot be allocated.
InitForward ==
    /\ pc = "init_fwd"
    /\ \E ok \in BOOLEAN :
         IF ok
         THEN /\ heap' = NewPlan(heap, call.npoints, FFTS_FORWARD)
              /\ m_forwardPlan' = Len(heap) + 1
         ELSE /\ heap' = heap
              /\ m_forwardPlan' = NULL
    /\ pc' = "free_rev"
    /\ UNCHANGED << m_reversePlan, m_cachedNumPoints,
                    m_forwardInBuf, m_forwardOutBuf, m_reverseOutBuf, m_rng,
                    m_sparams, coh, staleRead, cap, call, entry, ub, ncalls,
                    syn, crand, det >>

\* Lines 321-322
FreeReverse ==
    /\ pc = "free_rev"
    /\ heap' = FreeIfSet(heap, m_reversePlan)
    /\ pc' = "init_rev"
    /\ UNCHANGED << m_forwardPlan, m_reversePlan, m_cachedNumPoints,
                    m_forwardInBuf, m_forwardOutBuf, m_reverseOutBuf, m_rng,
                    m_sparams, coh, staleRead, cap, call, entry, ub, ncalls,
                    syn, crand, det >>

\* Line 323: m_reversePlan = ffts_init_1d_real(npoints, FFTS_BACKWARD)
InitReverse ==
    /\ pc = "init_rev"
    /\ \E ok \in BOOLEAN :
         IF ok
         THEN /\ heap' = NewPlan(heap, call.npoints, FFTS_BACKWARD)
              /\ m_reversePlan' = Len(heap) + 1
         ELSE /\ heap' = heap
              /\ m_reversePlan' = NULL
    /\ pc' = "resize"
    /\ UNCHANGED << m_forwardPlan, m_cachedNumPoints,
                    m_forwardInBuf, m_forwardOutBuf, m_reverseOutBuf, m_rng,
                    m_sparams, coh, staleRead, cap, call, entry, ub, ncalls,
                    syn, crand, det >>

\* std::vector / AcceleratorBuffer resize: keep the common prefix, new
\* elements are zero.
Resized(buf, n) == [j \in 1..n |-> IF j <= Len(buf) THEN buf[j] ELSE 0]

\* Lines 325-329: resize the three buffers and record the new key.
ResizeBuffers ==
    /\ pc = "resize"
    /\ m_forwardInBuf' = Resized(m_forwardInBuf, call.npoints)
    /\ m_forwardOutBuf' = Resized(m_forwardOutBuf, call.npoints)
    /\ m_reverseOutBuf' = Resized(m_reverseOutBuf, call.npoints)
    /\ m_cachedNumPoints' = call.npoints
    /\ pc' = AfterCache
    /\ UNCHANGED << m_forwardPlan, m_reversePlan, m_rng,
                    m_sparams, heap, coh, staleRead, cap, call, entry, ub,
                    ncalls, syn, crand, det >>

\* Lines 335-350: record the dispatch.  Binding cap->m_samples as input makes
\* its device copy current; m_forwardInBuf is bound output-only and marked
\* modified by the device.
Dispatch ==
    /\ pc = "dispatch"
    /\ coh' = [coh EXCEPT
                 !.cap = PrepareForGpuAccess(coh.cap, FALSE),
                 !.fwdIn = MarkModifiedFromGpu(
                               PrepareForGpuAccess(coh.fwdIn, TRUE))]
    /\ pc' = "submit"
    /\ UNCHANGED << m_forwardPlan, m_reversePlan, m_cachedNumPoints,
                    m_forwardInBuf, m_forwardOutBuf, m_reverseOutBuf, m_rng,
                    m_sparams, heap, staleRead, cap, call, entry, ub, ncalls,
                    syn, crand, det >>

\* Lines 353-354: queue->SubmitAndBlock(cmdBuf).  The device reads its copy of
\* the samples and writes the zero-padded signal to its copy of
\* m_forwardInBuf; the call continues when that has completed.
SubmitAndBlock ==
    /\ pc = "submit"
    /\ staleRead' = (staleRead \/ ~coh.cap.gpuFresh)
    /\ m_forwardInBuf' = ZeroPad(cap, call.depth, call.npoints)
    /\ coh' = [coh EXCEPT !.fwdIn = DeviceWrite(coh.fwdIn)]
    /\ pc' = "prepare"
    /\ UNCHANGED << m_forwardPlan, m_reversePlan, m_cachedNumPoints,
                    m_forwardOutBuf, m_reverseOutBuf, m_rng,
                    m_sparams, heap, cap, call, entry, ub, ncalls,
                    syn, crand, det >>

\* Line 358: m_forwardInBuf.PrepareForCpuAccess()
PrepareInput ==
    /\ pc = "prepare"
    /\ coh' = [coh EXCEPT !.fwdIn = PrepareForCpuAccess(coh.fwdIn)]
    /\ pc' = "fwd_fft"
    /\ UNCHANGED << m_forwardPlan, m_reversePlan, m_cachedNumPoints,
                    m_forwardInBuf, m_forwardOutBuf, m_reverseOutBuf, m_rng,
                    m_sparams, heap, staleRead, cap, call, entry, ub, ncalls,
                    syn, crand, det >>

\* Line 361: ffts_execute(m_forwardPlan, ...).  The host reads its copy of
\* m_forwardInBuf.  With a null plan the call dereferences a null pointer:
\* it crashes, or goes on with an output buffer no transform has written.
ForwardTransform ==
    /\ pc = "fwd_fft"
    /\ staleRead' = (staleRead \/ ~coh.fwdIn.cpuFresh)
    /\ IF m_forwardPlan # NULL
       THEN /\ m_forwardOutBuf' = m_forwardInBuf
            /\ pc' = "delay"
            /\ ub' = ub
       ELSE /\ ub' = ub \cup {"null_plan"}
            /\ \E crash \in BOOLEAN :
                 IF crash
                 THEN /\ pc' = "crashed"
                      /\ m_forwardOutBuf' = m_forwardOutBuf
                 ELSE /\ pc' = "delay"
                      /\ m_forwardOutBuf' = m_forwardOutBuf
    /\ UNCHANGED << m_forwardPlan, m_reversePlan, m_cachedNumPoints,
                    m_forwardInBuf, m_reverseOutBuf, m_rng,
                    m_sparams, heap, coh, cap, call, entry, ncalls,
                    syn, crand, det >>

\* Lines 366-367: groupDelaySamples = groupDelay / cap->m_timescale
GroupDelaySamples(sparams, timescale) == TruncDiv(sparams.groupDelay, timescale)

ComputeGroupDelay ==
    /\ pc = "delay"
    /\ call' = [call EXCEPT !.groupDelaySamples =
                    GroupDelaySamples(m_sparams, call.sampleperiod)]
    /\ pc' = "channel"
    /\ UNCHANGED << m_forwardPlan, m_reversePlan, m_cachedNumPoints,
                    m_forwardInBuf, m_forwardOutBuf, m_reverseOutBuf, m_rng,
                    m_sparams, heap, coh, staleRead, cap, entry, ub, ncalls,
                    syn, crand, det >>

\* Lines 370-387: multiply every bin by the interpolated channel response.
ApplyChannel ==
    /\ pc = "channel"
    /\ m_forwardOutBuf' = ApplyChannelTo(m_forwardOutBuf, m_sparams,
                                         call.sampleperiod)
    /\ pc' = "inv_fft"
    /\ UNCHANGED << m_forwardPlan, m_reversePlan, m_cachedNumPoints,
                    m_forwardInBuf, m_reverseOutBuf, m_rng,
                    m_sparams, heap, coh, staleRead, cap, call, entry, ub,
                    ncalls, syn, crand, det >>

\* Line 390: ffts_execute(m_reversePlan, ...)
InverseFFT ==
    /\ pc = "inv_fft"
    /\ IF m_reversePlan # NULL
       THEN /\ m_reverseOutBuf' = InverseTransform(m_forwardOutBuf)
            /\ pc' = "trim"
            /\ ub' = ub
       ELSE /\ ub' = ub \cup {"null_plan"}
            /\ \E crash \in BOOLEAN :
                 IF crash
                 THEN /\ pc' = "crashed"
                      /\ m_reverseOutBuf' = m_reverseOutBuf
                 ELSE /\ pc' = "trim"
                      /\ m_reverseOutBuf' = m_reverseOutBuf
    /\ UNCHANGED << m_forwardPlan, m_reversePlan, m_cachedNumPoints,
                    m_forwardInBuf, m_forwardOutBuf, m_rng,
                    m_sparams, heap, coh, staleRead, cap, call, entry, ncalls,
                    syn, crand, det >>

\* Lines 393-395: istart = groupDelaySamples; iend = depth;
\* finalLen = iend - istart (size_t)
Trim ==
    /\ pc = "trim"
    /\ call' = [call EXCEPT !.istart = call.groupDelaySamples,
                            !.finalLen = call.depth - call.groupDelaySamples,
                            !.i = 0]
    /\ pc' = "copy"
    /\ UNCHANGED << m_forwardPlan, m_reversePlan, m_cachedNumPoints,
                    m_forwardInBuf, m_forwardOutBuf, m_reverseOutBuf, m_rng,
                    m_sparams, heap, coh, staleRead, cap, entry, ub, ncalls,
                    syn, crand, det >>

\* m_reverseOutBuf[...] * fftscale with fftscale = 1.0f / npoints
Rescaled(x, n) == x \div n

\* Lines 399-400: one iteration of the copy loop
\*   cap->m_samples[i] = m_reverseOutBuf[i + istart] * fftscale + noise(m_rng)
\* Neither index is checked.  An access outside its buffer is undefined: the
\* call crashes, or reads an arbitrary value and stores outside the
\* waveform.  A loop whose bound wrapped around cannot end normally and is
\* followed for npoints iterations.
CopyLoop ==
    /\ pc = "copy"
    /\ IF SizeLess(call.i, call.finalLen)
       THEN LET idx == call.i + call.istart
                readOK == InBounds(idx, Len(m_reverseOutBuf))
                writeOK == InBounds(call.i, Len(cap))
                noise == NoiseValue(m_rng, call.noise_amplitude)
            IN  IF readOK /\ writeOK
                THEN /\ cap' = [cap EXCEPT ![call.i + 1] =
                                  Rescaled(m_reverseOutBuf[idx + 1], call.npoints)
                                    + noise]
                     /\ m_rng' = RngNext(m_rng)
                     /\ coh' = [coh EXCEPT !.cap = HostWrite(coh.cap)]
                     /\ call' = [call EXCEPT !.i = call.i + 1]
                     /\ pc' = "copy"
                     /\ ub' = ub
                ELSE /\ ub' = ub \cup {"out_of_bounds"}
                     /\ \E crash \in BOOLEAN :
                          IF crash \/ (call.finalLen < 0 /\ call.i >= call.npoints)
                          THEN /\ pc' = "crashed"
                               /\ UNCHANGED << cap, m_rng, coh, call >>
                          ELSE /\ pc' = "copy"
                               /\ m_rng' = RngNext(m_rng)
                               /\ call' = [call EXCEPT !.i = call.i + 1]
                               /\ \E g \in GarbageValues :
                                    IF writeOK
                                    THEN /\ cap' = [cap EXCEPT ![call.i + 1] =
                                                      Rescaled(g, call.npoints) + noise]
                                         /\ coh' = [coh EXCEPT
                                                      !.cap = HostWrite(coh.cap)]
                                    ELSE UNCHANGED << cap, coh >>
       ELSE /\ pc' = "resize_cap"
            /\ UNCHANGED << cap, m_rng, coh, call, ub >>
    /\ UNCHANGED << m_forwardPlan, m_reversePlan, m_cachedNumPoints,
                    m_forwardInBuf, m_forwardOutBuf, m_reverseOutBuf,
                    m_sparams, heap, staleRead, entry, ncalls,
                    syn, crand, det >>

\* Line 403: cap->Resize(finalLen)
ResizeCap ==
    /\ pc = "resize_cap"
    /\ cap' = Resized(cap, call.finalLen)
    /\ pc' = "returned"
    /\ UNCHANGED << m_forwardPlan, m_reversePlan, m_cachedNumPoints,
                    m_forwardInBuf, m_forwardOutBuf, m_reverseOutBuf, m_rng,
                    m_sparams, heap, coh, staleRead, call, entry, ub, ncalls,
                    syn, crand, det >>

\* Mutant of AddNoise: the sample is overwritten by the noise draw.
AddNoise_Overwrite(samples, i, rng, noise_amplitude) ==
    [samples EXCEPT ![i + 1] = NoiseValue(rng, noise_amplitude)]

\* cap->m_samples[i] += noise(m_rng)
AddNoise(samples, i, rng, noise_amplitude) ==
    [samples EXCEPT ![i + 1] = @ + NoiseValue(rng, noise_amplitude)]

\* Lines 409-410: one iteration of the noise-only loop, or its exit.
NoiseLoop ==
    /\ pc = "noise"
    /\ IF call.i < call.depth
       THEN /\ cap' = AddNoise(cap, call.i, m_rng, call.noise_amplitude)
            /\ m_rng' = RngNext(m_rng)
            /\ staleRead' = (staleRead \/ ~coh.cap.cpuFresh)
            /\ coh' = [coh EXCEPT !.cap = HostWrite(coh.cap)]
            /\ call' = [call EXCEPT !.i = call.i + 1]
            /\ pc' = "noise"
       ELSE /\ pc' = "returned"
            /\ UNCHANGED << cap, m_rng, staleRead, coh, call >>
    /\ UNCHANGED << m_forwardPlan, m_reversePlan, m_cachedNumPoints,
                    m_forwardInBuf, m_forwardOutBuf, m_reverseOutBuf,
                    m_sparams, heap, entry, ub, ncalls, syn, crand, det >>

\* The generator returns the waveform to its caller: the waveform is the
\* caller's from here on and the locals of the call are gone.
Return ==
    /\ pc = "returned"
    /\ pc' = "idle"
    /\ cap' = << >>
    /\ call' = NoCall
    /\ entry' = NoEntry
    /\ ub' = {}
    /\ coh' = [coh EXCEPT !.cap = NewBuffer]
    /\ UNCHANGED << m_forwardPlan, m_reversePlan, m_cachedNumPoints,
                    m_forwardInBuf, m_forwardOutBuf, m_reverseOutBuf, m_rng,
                    m_sparams, heap, staleRead,
                    ncalls, syn, crand, det >>

\* TestWaveformSource::~TestWaveformSource
Destroy ==
    /\ pc = "idle"
    /\ heap' = FreeIfSet(FreeIfSet(heap, m_forwardPlan), m_reversePlan)
    /\ m_forwardPlan' = NULL
    /\ m_reversePlan' = NULL
    /\ pc' = "destroyed"
    /\ UNCHANGED << m_cachedNumPoints,
                    m_forwardInBuf, m_forwardOutBuf, m_reverseOutBuf, m_rng,
                    m_sparams, coh, staleRead, cap, call, entry, ub,
                    ncalls, syn, crand, det >>

Init ==
    /\ EngineInit
    /\ crand = 1
    /\ syn = NoSynth
    /\ det = NoDet

Next ==
    \/ GeneratePRBS31
    \/ Generate8b10b
    \/ DegradeEnter
    \/ CacheCheck
    \/ FreeForward
    \/ InitForward
    \/ FreeReverse
    \/ InitReverse
    \/ ResizeBuffers
    \/ Dispatch
    \/ SubmitAndBlock
    \/ PrepareInput
    \/ ForwardTransform
    \/ ComputeGroupDelay
    \/ ApplyChannel
    \/ InverseFFT
    \/ Trim
    \/ CopyLoop
    \/ ResizeCap
    \/ NoiseLoop
    \/ Return
    \/ Destroy

Spec == Init /\ [][Next]_vars

(***************************************************************************)
(* SpecDet: two generation calls with identical parameters, each on a      *)
(* freshly constructed engine whose noise source has the same seed, in one *)
(* process.  The calls are taken whole, on inputs for which they execute   *)
(* no undefined behaviour (plans allocated, 0 <= groupDelaySamples <=      *)
(* depth) and with a symbol period no shorter than the sample period.      *)
(***************************************************************************)
RECURSIVE NoiseRun(_, _, _, _, _)
NoiseRun(samples, i, depth, rng, noise_amplitude) ==
    IF i < depth
    THEN NoiseRun(AddNoise(samples, i, rng, noise_amplitude), i + 1, depth,
                  RngNext(rng), noise_amplitude)
    ELSE samples

\* The full path of DegradeSerialData, lines 335-403.
FullPath(samples, sampleperiod, depth, noise_amplitude, rng, sparams) ==
    LET n == next_pow2(depth)
        out == InverseTransform(
                   ApplyChannelTo(ZeroPad(samples, depth, n), sparams, sampleperiod))
        istart == GroupDelaySamples(sparams, sampleperiod)
        finalLen == depth - istart
    IN  [j \in 1..finalLen |->
            Rescaled(out[j + istart], n)
              + NoiseValue(RngIter(rng, j - 1), noise_amplitude)]

\* DegradeSerialData as a function of its inputs and the noise state.
Degrade(samples, sampleperiod, depth, lpf, noise_amplitude, rng, sparams) ==
    IF lpf
    THEN FullPath(samples, sampleperiod, depth, noise_amplitude, rng, sparams)
    ELSE NoiseRun(samples, 0, depth, rng, noise_amplitude)

\* GeneratePRBS31 / Generate8b10b as a function of the parameters, the noise
\* state and the value rand() returns.
GenerateOutput(d, randValue) ==
    Degrade(Synthesize(d.kind, d.amplitude, d.period, d.sampleperiod, d.depth,
                       randValue),
            d.sampleperiod, d.depth, d.lpf, d.noise_amplitude, d.rng,
            [groupDelay |-> d.groupDelay])

DetGroupDelays == {0, 1}

DetInit ==
    /\ EngineIdle
    /\ syn = NoSynth
    /\ crand \in 1..Len(RandSeq)
    /\ \E kind \in Kinds, sp \in EngineSamplePeriods, period \in Periods,
          depth \in 1..MaxDepth, lpf \in BOOLEAN, sigma \in NoiseAmplitudes,
          g \in DetGroupDelays, seed \in 1..(RngMod - 1) :
         /\ period >= sp
         /\ det = [ phase |-> "start", kind |-> kind,
                    amplitude |-> EngineAmplitude,
                    period |-> period, sampleperiod |-> sp, depth |-> depth,
                    lpf |-> lpf, noise_amplitude |-> sigma, groupDelay |-> g,
                    rng |-> seed, first |-> << >>, second |-> << >> ]

\* uint32_t prbs = rand() in GeneratePRBS31; Generate8b10b does not call it.
RandAfter(kind, c) == IF kind = "PRBS31" THEN RandAdvance(c) ELSE c

DetFirstRun ==
    /\ det.phase = "start"
    /\ det' = [det EXCEPT !.phase = "one",
                          !.first = GenerateOutput(det, RandValue(crand))]
    /\ crand' = RandAfter(det.kind, crand)
    /\ UNCHANGED << syn, engineVars >>

DetSecondRun ==
    /\ det.phase = "one"
    /\ det' = [det EXCEPT !.phase = "both",
                          !.second = GenerateOutput(det, RandValue(crand))]
    /\ crand' = RandAfter(det.kind, crand)
    /\ UNCHANGED << syn, engineVars >>

DetNext == DetFirstRun \/ DetSecondRun

SpecDet == DetInit /\ [][DetNext]_vars

\* C6 (as claimed): for each pattern generation operation, two runs with
\* identically seeded noise sources and identical parameters produce
\* identical sample sequences of identical length.
C6_Deterministic ==
    det.phase = "both" =>
        /\ Len(det.first) = Len(det.second)
        /\ det.first = det.second

\* The fixed-pattern generator alone is deterministic.
C6_FixedPatternDeterministic ==
    (det.phase = "both" /\ det.kind = "8b10b") => det.first = det.second

\* The stepwise engine and the function Degrade agree on every call that
\* executes no undefined behaviour.
DegradeAgrees ==
    (pc = "returned" /\ ub = {}) =>
        cap = Degrade(entry.samples, call.sampleperiod, call.depth, call.lpf,
                      call.noise_amplitude, entry.rng, m_sparams)

(***************************************************************************)
(* Claims about the engine (checked under Spec).                           *)
(***************************************************************************)

\* C1 (as claimed): a full-path call with requested depth d returns a
\* waveform of exactly d - groupDelaySamples samples, and groupDelaySamples
\* is never negative.
C1_DelayTrim ==
    (call.lpf /\ pc \in {"returned", "crashed"} /\ "null_plan" \notin ub) =>
        /\ pc = "returned"
        /\ call.groupDelaySamples >= 0
        /\ Len(cap) = call.depth - call.groupDelaySamples

\* C2 (as claimed): on the full path, when groupDelaySamples >= depth the
\* call reports an error: it does not go on to return an (empty) waveform
\* and copies no sample outside the inverse-transform output buffer or the
\* waveform's sample buffer.
C2_ExcessiveGroupDelayReported ==
    (call.lpf /\ call.groupDelaySamples >= call.depth /\ "null_plan" \notin ub) =>
        /\ pc \notin {"resize_cap", "returned"}
        /\ "out_of_bounds" \notin ub

LivePlans == {p \in 1..Len(heap) : heap[p].frees = 0}

Live(dir) == {p \in LivePlans : heap[p].dir = dir}

\* C3 (as claimed): at most one forward and one inverse plan are live; between
\* calls both are built for the cached padded length; on a key change the
\* whole previous pair is released before any plan of the new pair is
\* created (no plan of a new length is live beside one of the old length);
\* every plan is released exactly once, all of them by the destruction.
C3_PairReleasedBeforeNewPair ==
    /\ Cardinality(Live(FFTS_FORWARD)) <= 1
    /\ Cardinality(Live(FFTS_BACKWARD)) <= 1
    /\ pc = "idle" => \A p \in LivePlans : heap[p].n = m_cachedNumPoints
    /\ \A p, q \in LivePlans : heap[p].n = heap[q].n
    /\ \A p \in 1..Len(heap) : heap[p].frees <= 1
    /\ pc = "destroyed" => LivePlans = {}

\* C3 (amended): at most one forward and one inverse plan are live at every
\* point, each still referenced by the engine (none leaked); between calls
\* every live plan is built for the cached padded length; on a key change
\* each plan of the previous pair is released before the plan that replaces
\* it is created; no plan is released twice, and after the destruction every
\* plan ever created has been released exactly once.
C3_PlanCache ==
    /\ Cardinality(Live(FFTS_FORWARD)) <= 1
    /\ Cardinality(Live(FFTS_BACKWARD)) <= 1
    /\ Live(FFTS_FORWARD) \subseteq {m_forwardPlan}
    /\ Live(FFTS_BACKWARD) \subseteq {m_reversePlan}
    /\ pc = "idle" => \A p \in LivePlans : heap[p].n = m_cachedNumPoints
    /\ pc = "init_fwd" => Live(FFTS_FORWARD) = {}
    /\ pc = "init_rev" => Live(FFTS_BACKWARD) = {}
    /\ \A p \in 1..Len(heap) : heap[p].frees <= 1
    /\ pc = "destroyed" => \A p \in 1..Len(heap) : heap[p].frees = 1

\* C3 witness: the engine was destroyed after two plan pairs of different
\* lengths had been created.
C3_Witness ==
    /\ pc = "destroyed"
    /\ Len(heap) = 4
    /\ heap[1].n # heap[3].n

\* C4 (as claimed): a transform is executed only with a plan that is
\* non-null and was created for the padded length of the current call; a
\* call whose plan could not be created executes no transform.
C4_TransformsHavePlans ==
    /\ "null_plan" \notin ub
    /\ pc = "fwd_fft" =>
          /\ m_forwardPlan # NULL
          /\ heap[m_forwardPlan].n = call.npoints
          /\ heap[m_forwardPlan].frees = 0
    /\ pc = "inv_fft" =>
          /\ m_reversePlan # NULL
          /\ heap[m_reversePlan].n = call.npoints
          /\ heap[m_reversePlan].frees = 0

Marked(b) ==
    /\ ~b.gpuFresh => b.gpuStale
    /\ ~b.cpuFresh => b.cpuStale

\* C5 (as claimed): no side ever reads a copy of a dual-residency buffer that
\* is stale, and when the call returns no buffer holds a write that has not
\* been marked (every copy that is out of date is flagged stale).
C5_Coherent ==
    /\ ~staleRead
    /\ (pc = "returned" /\ ub = {}) => (Marked(coh.cap) /\ Marked(coh.fwdIn))

\* C8: a degrade call with the loss model disabled leaves the sample count
\* equal to the requested depth and changes each sample only by adding one
\* noise draw (the j-th draw for sample j); with noise standard deviation 0
\* the output equals the input exactly.
C8_NoiseOnlyPath ==
    (pc = "returned" /\ ~call.lpf) =>
        /\ Len(cap) = call.depth
        /\ Len(entry.samples) = call.depth
        /\ \A j \in 1..call.depth :
              cap[j] = entry.samples[j]
                         + call.noise_amplitude
                             * ((RngIter(entry.rng, j) % 5) - 2)
        /\ m_rng = RngIter(entry.rng, call.depth)
        /\ call.noise_amplitude = 0 => cap = entry.samples

\* C8 witness: a noise-only call has returned with noise added to several
\* samples.
C8_Witness ==
    /\ pc = "returned"
    /\ ~call.lpf
    /\ call.depth >= 2
    /\ call.noise_amplitude = 1
    /\ cap # entry.samples

\* The noiseless passthrough of C8 is reached too.
C8_NoiselessReached ==
    /\ pc = "returned"
    /\ ~call.lpf
    /\ call.depth >= 2
    /\ call.noise_amplitude = 0

(***************************************************************************)
(* SpecSynth: one synthesizer loop, one sample per step.                   *)
(***************************************************************************)
SynthInit ==
    /\ EngineIdle
    /\ det = NoDet
    /\ crand \in 1..Len(RandSeq)
    /\ \E kind \in Kinds, sp \in SamplePeriods, period \in Periods,
          depth \in 1..MaxSynthDepth :
         \E amplitude \in Amplitudes(sp) :
            syn = SynthStart(kind, amplitude, period, sp, depth, RandValue(crand))

SynthLoop ==
    /\ syn.i < syn.depth
    /\ syn' = SynthSample(syn)
    /\ UNCHANGED << crand, engineVars, det >>

SynthNext == SynthLoop

SpecSynth == SynthInit /\ [][SynthNext]_vars

(***************************************************************************)
(* Claims about the synthesizers (checked under SpecSynth).                *)
(***************************************************************************)

\* The literal sequence 00111110101001000101 of the specification.
LiteralBits == << 0,0,1,1,1,1,1,0,1,0,1,0,0,1,0,0,0,1,0,1 >>

\* C7: in fixed-pattern synthesis the k-th pattern advance (k >= 0) sets the
\* logic level to bit (k mod 20) of 00111110101001000101, so the level
\* sequence repeats every 20 advances without drift, and the pattern index
\* stays within 0..19.
C7_PatternCyclic ==
    syn.kind = "8b10b" =>
        /\ syn.nbit \in 0..19
        /\ syn.nbit = syn.nadv % 20
        /\ syn.nadv > 0 => syn.value = LiteralBits[((syn.nadv - 1) % 20) + 1]

\* C7 witness: the fixed pattern has been advanced past a cycle boundary.
C7_Witness ==
    /\ syn.kind = "8b10b"
    /\ syn.nadv = 22
    /\ syn.nbit = 2

\* C9 (as claimed): after each processed output sample the phase accumulator
\* is non-negative and below one symbol period, for every positive sample
\* period and symbol period (the pattern advance being repeated until the
\* accumulator is non-negative).
C9_PhaseInRange ==
    syn.i > 0 =>
        /\ syn.phase_to_next_edge >= 0
        /\ syn.phase_to_next_edge < syn.period

\* C10: with symbol period >= sample period > 0, every synthesized sample
\* lies within [-amplitude/2, +amplitude/2]; a sample without level change
\* is +-amplitude/2 per the current level; a sample with a level change is
\* previous + (new - previous) * (1 - last_phase / sampleperiod) with that
\* fraction in [0, 1], and it equals the new level when the edge falls on the
\* sample boundary (amplitude 2, symbol period 4, sample period 1, change at
\* sample 4: samples 0..3 are -1 and sample 4 is +1).
C10_SampleShape ==
    syn.period >= syn.sampleperiod =>
        /\ \A j \in 1..Len(syn.samples) :
              /\ 2 * syn.samples[j] >= -syn.amplitude
              /\ 2 * syn.samples[j] <= syn.amplitude
        /\ syn.i > 0 =>
              LET x == syn.samples[syn.i]
                  prev == IF syn.last = 1 THEN syn.amplitude ELSE -syn.amplitude
                  new == IF syn.value = 1 THEN syn.amplitude ELSE -syn.amplitude
                  fracNum == syn.sampleperiod - syn.last_phase
              IN  IF syn.last = syn.value
                  THEN 2 * x = new
                  ELSE /\ fracNum >= 0
                       /\ fracNum <= syn.sampleperiod
                       /\ 2 * x * syn.sampleperiod
                            = prev * syn.sampleperiod + (new - prev) * fracNum
                       /\ syn.last_phase = 0 => 2 * x = new
        /\ ( /\ syn.amplitude = 2
             /\ syn.period = 4
             /\ syn.sampleperiod = 1
             /\ syn.i = 5
             /\ syn.last # syn.value )
           => syn.samples = << -1, -1, -1, -1, 1 >>

\* C10 witness: a level change strictly inside a sample interval has been
\* interpolated.
C10_Witness ==
    /\ syn.period >= syn.sampleperiod
    /\ syn.i > 0
    /\ syn.last # syn.value
    /\ syn.last_phase > 0
    /\ syn.last_phase < syn.sampleperiod

\* The scenario of C10: the edge falls exactly on sample 4.
C10_ScenarioReached ==
    /\ syn.amplitude = 2
    /\ syn.period = 4
    /\ syn.sampleperiod = 1
    /\ syn.i = 5
    /\ syn.samples = << -1, -1, -1, -1, 1 >>

=============================================================================
